---------------------------- MODULE Spec2Model ----------------------------
(***************************************************************************)
(* OAuth2 Authorization Code + PKCE browser client (auth-utils.ts / App).  *)
(* State: sessionStorage (verifier, state, pending code, exchange flag),   *)
(* localStorage (auth_tokens), window.location (callback query), the React *)
(* state of App (user, userStatus, loading) and, for every invocation of   *)
(* handleAuth / handleRetry, its position between two suspension points.   *)
(* One action is one synchronous run of a handler from one await to the    *)
(* next: JavaScript is single threaded, so such a run is atomic.           *)
(***************************************************************************)
EXTENDS Integers, Sequences, FiniteSets, TLC

\* ---- bounds of the model ------------------------------------------------
MaxReloads == 1       \* page reloads (sessionStorage/localStorage survive)
MaxRetries == 1       \* clicks on Retry per page load
MaxTicks == 1         \* clock advances, one second each
MaxSignIns == 1       \* clicks on Sign In whose digest is still awaited

\* ---- program constants --------------------------------------------------
NumInit == 2          \* <StrictMode> runs the mount effect, so handleAuth, twice
PollBudget == 50      \* for (let i = 0; i < 50; i++)
MsPerSecond == 1000   \* Date.now() + tokens.expires_in * 1000

\* expires_in of a token response, in seconds: expired on arrival, or valid
\* until the clock advances
Lifetimes == {0, 1}

\* the handleAuth invocations of a page load: those of the StrictMode mount,
\* and one more for an effect run again by a later remount of App
Mounted == 1..NumInit
Procs == 1..(NumInit + 1)
Retries == 1..MaxRetries

\* A nullable JavaScript value: null is << >>, a value v is <<v>>.
Null == << >>
Some(v) == <<v>>
Val(n) == n[1]

\* id tokens: the one cached by an earlier session, the one the token
\* endpoint issues for the code, and one whose payload does not decode.
OldJwt == "jwt_old"
NewJwt == "jwt_new"
BadJwt == "not_a_jwt"
IssuedState == "xyz"
WrongState == "wrong"
TheCode == "abc"
TheVerifier == "verifier"

VARIABLES
  now,          \* Date.now(), in ms
  url,          \* {code, state} carried by window.location.search, or null
  ssVerifier,   \* sessionStorage oauth_pkce_verifier
  ssState,      \* sessionStorage oauth_state
  ssPending,    \* sessionStorage oauth_pending_code
  ssLock,       \* sessionStorage oauth_exchange_in_progress = 'true'
  tokens,       \* localStorage auth_tokens
  user,         \* React state user
  userStatus,   \* React state userStatus
  loading,      \* React state loading
  redirect,     \* external navigation requested by the page
  pc,           \* position of each handleAuth invocation
  path,         \* branch of handleAuth each invocation took
  authCode,     \* handleAuth local authCode
  polls,        \* waitForTokens: completed waits
  tok,          \* TokenSet the invocation obtained (exchanged or read)
  rpc,          \* position of each handleRetry invocation
  rtok,         \* id token handed to checkUserStatus by handleRetry
  tokenCalls,   \* POSTs issued to /oauth2/token
  reloads,      \* page reloads so far
  ticks,        \* clock advances so far
  signIns       \* handleSignIn calls awaiting the digest of line 47

vars == <<now, url, ssVerifier, ssState, ssPending, ssLock, tokens, user,
          userStatus, loading, redirect, pc, path, authCode, polls, tok,
          rpc, rtok, tokenCalls, reloads, ticks, signIns>>

store == <<ssVerifier, ssState, ssPending, ssLock>>

\* ---- the page's shared state as one record -------------------------------
\* Handlers are written as functions from this record to this record, so
\* that the calls a handler makes compose in the order the code makes them.
Page ==
  [url |-> url, ssVerifier |-> ssVerifier, ssState |-> ssState,
   ssPending |-> ssPending, ssLock |-> ssLock, tokens |-> tokens,
   user |-> user, userStatus |-> userStatus, loading |-> loading,
   redirect |-> redirect, tokenCalls |-> tokenCalls]

Commit(s) ==
  /\ url' = s.url
  /\ ssVerifier' = s.ssVerifier
  /\ ssState' = s.ssState
  /\ ssPending' = s.ssPending
  /\ ssLock' = s.ssLock
  /\ tokens' = s.tokens
  /\ user' = s.user
  /\ userStatus' = s.userStatus
  /\ loading' = s.loading
  /\ redirect' = s.redirect
  /\ tokenCalls' = s.tokenCalls

\* ---- auth-utils.ts -------------------------------------------------------
\* validateState: storedState === returnedState (null never equals a string)
validateState_always(s, returnedState) == TRUE
validateState(s, returnedState) == s.ssState = Some(returnedState)

\* signInWithLang (lines 40-70): a verifier and a state are stored, then the
\* browser is sent to the authorize endpoint.
signInWithLang(s) ==
  [s EXCEPT !.ssVerifier = Some(TheVerifier), !.ssState = Some(IssuedState),
            !.redirect = "authorize"]

\* exchangeCodeForTokens up to its fetch (lines 83-105): without a stored
\* verifier it throws before any request is made.
exchangeCodeForTokens_blind(s) ==
  [thrown |-> FALSE, page |-> [s EXCEPT !.tokenCalls = s.tokenCalls + 1]]
exchangeCodeForTokens_call(s) ==
  IF s.ssVerifier = Null
    THEN [thrown |-> TRUE, page |-> s]
    ELSE [thrown |-> FALSE, page |-> [s EXCEPT !.tokenCalls = s.tokenCalls + 1]]

\* exchangeCodeForTokens once the response is ok (lines 112-114)
exchangeCodeForTokens_ok(s) == [s EXCEPT !.ssVerifier = Null, !.ssState = Null]

\* getAuthorizationCode: the URL first (stored as pending, URL stripped),
\* then the pending code of sessionStorage, else null.
getAuthorizationCode_keepUrl(s) ==
  IF s.url # Null
    THEN [ret |-> s.url, page |-> [s EXCEPT !.ssPending = s.url]]
    ELSE [ret |-> s.ssPending, page |-> s]
getAuthorizationCode_noStore(s) ==
  IF s.url # Null
    THEN [ret |-> s.url, page |-> [s EXCEPT !.url = Null]]
    ELSE [ret |-> s.ssPending, page |-> s]
getAuthorizationCode(s) ==
  IF s.url # Null
    THEN [ret |-> s.url, page |-> [s EXCEPT !.ssPending = s.url, !.url = Null]]
    ELSE [ret |-> s.ssPending, page |-> s]

clearAuthorizationCode_keepPending(s) == [s EXCEPT !.ssLock = FALSE]
clearAuthorizationCode_keepLock(s) == [s EXCEPT !.ssPending = Null]
clearAuthorizationCode(s) == [s EXCEPT !.ssPending = Null, !.ssLock = FALSE]

markExchangeInProgress(s) == [s EXCEPT !.ssLock = TRUE]

isExchangeInProgress_never(s) == FALSE
isExchangeInProgress(s) == s.ssLock

\* ---- App: token decoding ------------------------------------------------
\* parseJwt: the claims of the payload, or null when decoding throws.
parseJwt(token) ==
  IF token = BadJwt THEN Null
  ELSE Some([sub |-> IF token = OldJwt THEN "user_old" ELSE "user_new"])

\* getUserInfoFromToken: UserInfo built from the claims; throws with parseJwt.
getUserInfoFromToken(idToken) ==
  IF parseJwt(idToken) = Null THEN Null
  ELSE Some([userId |-> Val(parseJwt(idToken)).sub])

\* tokens.expiresAt > Date.now()
NotExpired(t) == t.expiresAt > now

\* ---- App: checkUserStatus -----------------------------------------------
\* A response of the backend: a network failure (fetch rejects), or an HTTP
\* status with a body whose response.json() is null when it does not parse.
DeactivatedBody == [code |-> "ACCOUNT_DESACTIVATED"]
OtherBody == [code |-> "NOT_APPROVED"]
StatusResponses ==
  {[net |-> FALSE, status |-> 0, json |-> Null]} \cup
  [net : {TRUE}, status : {200, 403, 500},
   json : {Null, Some(DeactivatedBody), Some(OtherBody)}]

checkUserStatus_403deact(r) ==
  IF ~r.net THEN "error"
  ELSE IF r.status = 200 THEN "approved"
  ELSE IF r.status = 403 THEN "deactivated"
  ELSE "error"
checkUserStatus(r) ==
  IF ~r.net THEN "error"
  ELSE IF r.status = 200 THEN "approved"
  ELSE IF r.status = 403
    THEN IF r.json # Null /\ Val(r.json).code = "ACCOUNT_DESACTIVATED"
           THEN "deactivated"
           ELSE "pending"
  ELSE "error"

\* ---- App: checkStoredTokens, up to its await ----------------------------
\* out: "false" (returned false), "await" (status request sent), "throw".
checkStoredTokens(s) ==
  IF s.tokens = Null THEN [page |-> s, out |-> "false", path |-> "none"]
  ELSE IF NotExpired(Val(s.tokens))
    THEN IF getUserInfoFromToken(Val(s.tokens).idToken) = Null
           THEN [page |-> s, out |-> "throw", path |-> "stored"]
           ELSE [page |-> [s EXCEPT !.user =
                             getUserInfoFromToken(Val(s.tokens).idToken)],
                 out |-> "await", path |-> "stored"]
    ELSE [page |-> [s EXCEPT !.tokens = Null], out |-> "false",
          path |-> "purged"]

\* ---- App: handleAuth, from its call to its first await -------------------
\* The result: the page, where the invocation stands, the branch it took,
\* its authCode and the TokenSet it read.
Outcome(s, p, br, ac, tk) ==
  [page |-> s, pc |-> p, path |-> br, authCode |-> ac, tok |-> tk, polls |-> 0]

\* lines 352-365: a valid cached TokenSet skips the exchange
handleAuth_cached(s, ac) ==
  IF getUserInfoFromToken(Val(s.tokens).idToken) = Null
    THEN Outcome(clearAuthorizationCode(s), "crashed", "cached", ac, s.tokens)
    ELSE Outcome([clearAuthorizationCode(s) EXCEPT !.user =
                    getUserInfoFromToken(Val(s.tokens).idToken)],
                 "status", "cached", ac, s.tokens)

\* lines 404-408 and 83-105: claim the flag, then exchangeCodeForTokens up to
\* its fetch; with no verifier its promise rejects and handleAuth yields at
\* line 408 ("thrown") before the catch of lines 427-432 runs.
handleAuth_exchange(s, ac) ==
  LET x == exchangeCodeForTokens_call(markExchangeInProgress(s)) IN
  IF x.thrown
    THEN Outcome(x.page, "thrown", "noverifier", ac, Null)
    ELSE Outcome(x.page, "exchange_fetch", "owner", ac, Null)

\* lines 343-408 once getAuthorizationCode returned a callback
handleAuth_callback(s, ac) ==
  IF ~validateState(s, Val(ac).state)
    THEN Outcome([clearAuthorizationCode(s) EXCEPT !.loading = FALSE],
                 "done", "mismatch", ac, Null)
  ELSE IF s.tokens # Null /\ NotExpired(Val(s.tokens))
    THEN handleAuth_cached(s, ac)
  ELSE IF isExchangeInProgress(s)
    THEN Outcome(s, "poll", "poll", ac, Null)
  ELSE handleAuth_exchange(s, ac)

\* line 437 up to the first yield: checkStoredTokens awaits its status request
\* ("stored_status"), throws, or returns false, and then the await of line 437
\* still yields ("checked") before setLoading(false) of line 438.
handleAuth_noCallback(s) ==
  LET c == checkStoredTokens(s) IN
    IF c.out = "await"
      THEN Outcome(c.page, "stored_status", c.path, Null, s.tokens)
    ELSE IF c.out = "throw"
      THEN Outcome(c.page, "crashed", c.path, Null, s.tokens)
    ELSE Outcome(c.page, "checked", c.path, Null, Null)

handleAuth(s) ==
  LET g == getAuthorizationCode(s) IN
    IF g.ret # Null THEN handleAuth_callback(g.page, g.ret)
    ELSE handleAuth_noCallback(g.page)

\* ---- App: waitForTokens, one wake-up of the loop (lines 371-401) ---------
\* k is the number of waits completed before this one; the loop goes on to
\* another wait while i < 50 holds after i++. The counter is the loop's own
\* variable: it is gone (0) once the loop is left.
BudgetLeft_offByOne(k) == k + 1 <= PollBudget
BudgetLeft_forever(k) == TRUE
BudgetLeft(k) == k + 1 < PollBudget

waitForTokens(s, ac, k) ==
  IF s.tokens # Null /\ NotExpired(Val(s.tokens))
    THEN IF getUserInfoFromToken(Val(s.tokens).idToken) = Null
           THEN Outcome(clearAuthorizationCode(s), "crashed", "pollOk", ac,
                        s.tokens)
           ELSE Outcome([clearAuthorizationCode(s) EXCEPT !.user =
                           getUserInfoFromToken(Val(s.tokens).idToken)],
                        "status", "pollOk", ac, s.tokens)
  ELSE IF ~isExchangeInProgress(s)
    THEN Outcome([clearAuthorizationCode(s) EXCEPT !.userStatus = "error",
                                                   !.loading = FALSE],
                 "done", "pollGone", ac, Null)
  ELSE IF BudgetLeft(k)
    THEN [Outcome(s, "poll", "poll", ac, Null) EXCEPT !.polls = k + 1]
  ELSE Outcome([clearAuthorizationCode(s) EXCEPT !.userStatus = "error",
                                                 !.loading = FALSE],
               "done", "pollTimeout", ac, Null)

\* ---- exchangeCodeForTokens after its fetch (lines 107-116) ----------------
\* A token response: a network failure, or an HTTP response that is ok or not.
TokenResponses == {[net |-> FALSE, ok |-> FALSE]} \cup [net : {TRUE}, ok : BOOLEAN]

\* The catch block of handleAuth (lines 427-431) followed by line 432.
handleAuth_catch_silent(s) == [clearAuthorizationCode(s) EXCEPT !.loading = FALSE]
handleAuth_catch(s) ==
  [clearAuthorizationCode(s) EXCEPT !.userStatus = "error", !.loading = FALSE]

exchangeCodeForTokens_response_earlyClear(s, ac, r) ==
  IF ~r.net \/ ~r.ok
    THEN Outcome(handleAuth_catch(s), "done", "ownerFail", ac, Null)
    ELSE Outcome(clearAuthorizationCode([s EXCEPT !.ssVerifier = Null,
                                                  !.ssState = Null]),
                 "exchange_json", "owner", ac, Null)
exchangeCodeForTokens_response(s, ac, r) ==
  IF ~r.net \/ ~r.ok
    THEN Outcome(handleAuth_catch(s), "done", "ownerFail", ac, Null)
    ELSE Outcome(exchangeCodeForTokens_ok(s), "exchange_json", "owner", ac, Null)

\* ---- handleAuth after the exchange returned (lines 408-432) ---------------
\* The body of an ok token response: null when response.json() rejects.
TokenBodies ==
  {Null} \cup {Some(b) : b \in [id_token : {NewJwt, BadJwt},
                                expires_in : Lifetimes]}

StoredTokensOf(body) ==
  [idToken |-> body.id_token, expiresAt |-> now + body.expires_in * MsPerSecond]

handleAuth_tokens(s, ac, b) ==
  IF b = Null THEN Outcome(handleAuth_catch(s), "done", "ownerFail", ac, Null)
  ELSE IF getUserInfoFromToken(Val(b).id_token) = Null
    THEN Outcome(handleAuth_catch([s EXCEPT !.tokens =
                                     Some(StoredTokensOf(Val(b)))]),
                 "done", "ownerBadJwt", ac, Some(StoredTokensOf(Val(b))))
  ELSE Outcome([clearAuthorizationCode(s) EXCEPT
                  !.tokens = Some(StoredTokensOf(Val(b))),
                  !.user = getUserInfoFromToken(Val(b).id_token)],
               "status", "ownerOk", ac, Some(StoredTokensOf(Val(b))))

\* setUserStatus(status); setLoading(false) once checkUserStatus returned
handleAuth_status(s, r) ==
  [s EXCEPT !.userStatus = checkUserStatus(r), !.loading = FALSE]

\* checkStoredTokens once checkUserStatus returned (lines 330-332): it sets the
\* status and returns true; handleAuth resumes at line 438 in a later microtask.
checkStoredTokens_status(s, r) == [s EXCEPT !.userStatus = checkUserStatus(r)]

\* the continuation of handleAuth that a settled promise resumes without any
\* request in between: line 438 after checkStoredTokens, or the catch
handleAuth_resume(s, p) ==
  IF p = "thrown" THEN handleAuth_catch(s) ELSE [s EXCEPT !.loading = FALSE]

\* ---- handleRetry (lines 466-474) and handleSignOut (lines 452-464) --------
handleRetry_purging(s) ==
  IF s.tokens = Null THEN [page |-> s, rpc |-> "done", rtok |-> Null]
  ELSE IF ~NotExpired(Val(s.tokens))
    THEN [page |-> [s EXCEPT !.tokens = Null], rpc |-> "done", rtok |-> Null]
  ELSE [page |-> [s EXCEPT !.userStatus = "loading"], rpc |-> "status",
        rtok |-> s.tokens]
handleRetry(s) ==
  IF s.tokens = Null THEN [page |-> s, rpc |-> "done", rtok |-> Null]
  ELSE [page |-> [s EXCEPT !.userStatus = "loading"], rpc |-> "status",
        rtok |-> s.tokens]

handleRetry_status(s, r) == [s EXCEPT !.userStatus = checkUserStatus(r)]

handleSignOut_keepTokens(s) ==
  [s EXCEPT !.user = Null, !.userStatus = "loading", !.redirect = "logout"]
handleSignOut(s) ==
  [s EXCEPT !.tokens = Null, !.user = Null, !.userStatus = "loading",
            !.redirect = "logout"]

\* ---- what the rendered page offers (lines 476-620) ------------------------
RetryOffered == ~loading /\ user # Null /\ userStatus \in {"pending", "error"}
SignInOffered == ~loading /\ user = Null
SignOutOffered == ~loading /\ user # Null /\ userStatus # "loading"

\* ---- initial states: a page load ------------------------------------------
PkceSessions == {<<Null, Null>>, <<Some(TheVerifier), Some(IssuedState)>>}
Callbacks == {Null} \cup {Some([code |-> TheCode, state |-> st]) :
                            st \in {IssuedState, WrongState}}
CachedTokens ==
  {Null} \cup {Some(c) : c \in [idToken : {OldJwt, BadJwt},
                                expiresAt : {k * MsPerSecond : k \in Lifetimes}]}

InitOf(M) ==
  /\ now = 0
  /\ url \in Callbacks
  /\ \E p \in PkceSessions : ssVerifier = p[1] /\ ssState = p[2]
  /\ ssPending = Null
  /\ ssLock = FALSE
  /\ tokens \in CachedTokens
  /\ user = Null
  /\ userStatus = "loading"
  /\ loading = TRUE
  /\ redirect = "none"
  /\ pc = [i \in Procs |-> IF i \in M THEN "start" ELSE "unmounted"]
  /\ path = [i \in Procs |-> "start"]
  /\ authCode = [i \in Procs |-> Null]
  /\ polls = [i \in Procs |-> 0]
  /\ tok = [i \in Procs |-> Null]
  /\ rpc = [j \in Retries |-> "idle"]
  /\ rtok = [j \in Retries |-> Null]
  /\ tokenCalls = 0
  /\ reloads = 0
  /\ ticks = 0
  /\ signIns = 0

Init == InitOf(Mounted)

\* ---- actions --------------------------------------------------------------
Advance(i, o) ==
  /\ Commit(o.page)
  /\ pc' = [pc EXCEPT ![i] = o.pc]
  /\ path' = [path EXCEPT ![i] = o.path]
  /\ authCode' = [authCode EXCEPT ![i] = o.authCode]
  /\ tok' = [tok EXCEPT ![i] = o.tok]

\* StrictMode runs the effect of the mount twice back to back, in one task:
\* nothing comes between the starts of its invocations, and their microtasks
\* follow both starts.
Mounting == \E j \in Mounted : pc[j] = "start"

\* The event loop is free to handle a timer, a response or a click: the mount
\* is over and no invocation stands between a settled promise and its
\* continuation (microtasks run before any other task).
Quiet == ~Mounting /\ \A i \in Procs : pc[i] \notin {"checked", "thrown"}

\* the continuation of line 438, or the catch of a rejected exchange
HA_Microtask(i) ==
  /\ pc[i] \in {"checked", "thrown"}
  /\ ~Mounting
  /\ Commit(handleAuth_resume(Page, pc[i]))
  /\ pc' = [pc EXCEPT ![i] = "done"]
  /\ UNCHANGED <<now, path, authCode, polls, tok, rpc, rtok, reloads, ticks, signIns>>

\* the effect runs handleAuth up to its first await (invocations are numbered
\* in the order the effects run; the one of a remount starts in a task of its own)
HA_Start(i) ==
  /\ pc[i] = "start"
  /\ \A j \in Procs : j < i => pc[j] # "start"
  /\ i \notin Mounted => Quiet
  /\ Advance(i, handleAuth(Page))
  /\ UNCHANGED <<now, polls, rpc, rtok, reloads, ticks, signIns>>

\* a 100 ms timer of waitForTokens fires
HA_Poll(i) ==
  /\ pc[i] = "poll"
  /\ Quiet
  /\ Advance(i, waitForTokens(Page, authCode[i], polls[i]))
  /\ polls' = [polls EXCEPT ![i] = waitForTokens(Page, authCode[i], polls[i]).polls]
  /\ UNCHANGED <<now, rpc, rtok, reloads, ticks, signIns>>

\* the fetch of the token endpoint settles
HA_ExchangeResponseOn(i, r) ==
  /\ pc[i] = "exchange_fetch"
  /\ Quiet
  /\ Advance(i, exchangeCodeForTokens_response(Page, authCode[i], r))
  /\ UNCHANGED <<now, polls, rpc, rtok, reloads, ticks, signIns>>

HA_ExchangeResponse(i) == \E r \in TokenResponses : HA_ExchangeResponseOn(i, r)

\* response.json() of the token response settles
HA_ExchangeJson(i) ==
  /\ pc[i] = "exchange_json"
  /\ Quiet
  /\ \E b \in TokenBodies : Advance(i, handleAuth_tokens(Page, authCode[i], b))
  /\ UNCHANGED <<now, polls, rpc, rtok, reloads, ticks, signIns>>

\* the status request of an initialization settles
HA_StatusResponseOn(i, r) ==
  /\ pc[i] \in {"status", "stored_status"}
  /\ Quiet
  /\ Commit(IF pc[i] = "status" THEN handleAuth_status(Page, r)
                              ELSE checkStoredTokens_status(Page, r))
  /\ pc' = [pc EXCEPT ![i] = IF pc[i] = "status" THEN "done" ELSE "checked"]
  /\ UNCHANGED <<now, path, authCode, polls, tok, rpc, rtok, reloads, ticks, signIns>>

HA_StatusResponse(i) == \E r \in StatusResponses : HA_StatusResponseOn(i, r)

\* the user clicks Retry
Retry_Start(j) ==
  /\ rpc[j] = "idle"
  /\ Quiet
  /\ RetryOffered
  /\ Commit(handleRetry(Page).page)
  /\ rpc' = [rpc EXCEPT ![j] = handleRetry(Page).rpc]
  /\ rtok' = [rtok EXCEPT ![j] = handleRetry(Page).rtok]
  /\ UNCHANGED <<now, pc, path, authCode, polls, tok, reloads, ticks, signIns>>

\* the status request of a retry settles
Retry_StatusResponseOn(j, r) ==
  /\ rpc[j] = "status"
  /\ Quiet
  /\ Commit(handleRetry_status(Page, r))
  /\ rpc' = [rpc EXCEPT ![j] = "done"]
  /\ UNCHANGED <<now, pc, path, authCode, polls, tok, rtok, reloads, ticks, signIns>>

Retry_StatusResponse(j) ==
  \E r \in StatusResponses : Retry_StatusResponseOn(j, r)

\* the user clicks Sign In on the sign-in screen: handleSignIn (lines 448-450)
\* enters signInWithLang, which suspends in generateCodeChallenge (line 47)
\* before it has written anything
SignIn_Start ==
  /\ SignInOffered
  /\ Quiet
  /\ signIns < MaxSignIns
  /\ signIns' = signIns + 1
  /\ UNCHANGED <<now, url, store, tokens, user, userStatus, loading, redirect,
                 pc, path, authCode, polls, tok, rpc, rtok, tokenCalls,
                 reloads, ticks>>

\* the digest settles: signInWithLang resumes (lines 48-69), whatever the page
\* shows by then
SignIn_Digest ==
  /\ signIns > 0
  /\ Quiet
  /\ Commit(signInWithLang(Page))
  /\ signIns' = signIns - 1
  /\ UNCHANGED <<now, pc, path, authCode, polls, tok, rpc, rtok, reloads, ticks>>

\* the user clicks Sign Out
SignOut ==
  /\ SignOutOffered
  /\ Quiet
  /\ Commit(handleSignOut(Page))
  /\ UNCHANGED <<now, pc, path, authCode, polls, tok, rpc, rtok, reloads, ticks, signIns>>

\* the page is loaded again: the storages survive, the running handlers and
\* the React state do not (lines 282-284 give the initial React state).
Reload ==
  /\ reloads < MaxReloads
  /\ Quiet
  /\ reloads' = reloads + 1
  /\ user' = Null
  /\ userStatus' = "loading"
  /\ loading' = TRUE
  /\ redirect' = "none"
  /\ pc' = [i \in Procs |-> IF i \in Mounted THEN "start" ELSE "unmounted"]
  /\ path' = [i \in Procs |-> "start"]
  /\ authCode' = [i \in Procs |-> Null]
  /\ polls' = [i \in Procs |-> 0]
  /\ tok' = [i \in Procs |-> Null]
  /\ rpc' = [j \in Retries |-> "idle"]
  /\ rtok' = [j \in Retries |-> Null]
  /\ signIns' = 0
  /\ UNCHANGED <<now, url, store, tokens, tokenCalls, ticks>>

\* time passes: Date.now() is the wall clock, read anew by every run
Tick ==
  /\ ticks < MaxTicks
  /\ ticks' = ticks + 1
  /\ now' = now + MsPerSecond
  /\ UNCHANGED <<url, store, tokens, user, userStatus, loading, redirect, pc,
                 path, authCode, polls, tok, rpc, rtok, tokenCalls, reloads,
                 signIns>>

Next ==
  \/ \E i \in Procs : HA_Start(i)
  \/ \E i \in Procs : HA_Microtask(i)
  \/ \E i \in Procs : HA_Poll(i)
  \/ \E i \in Procs : HA_ExchangeResponse(i)
  \/ \E i \in Procs : HA_ExchangeJson(i)
  \/ \E i \in Procs : HA_StatusResponse(i)
  \/ \E j \in Retries : Retry_Start(j)
  \/ \E j \in Retries : Retry_StatusResponse(j)
  \/ SignIn_Start
  \/ SignIn_Digest
  \/ SignOut
  \/ Reload
  \/ Tick

Spec == Init /\ [][Next]_vars

\* A first page load on which App is mounted once more while the invocations
\* of the first mount may still be running: three invocations of handleAuth,
\* with everything else the page offers.
InitRemount == InitOf(Procs)

SpecRemount == InitRemount /\ [][Next]_vars

\* ---- auth-utils.ts under arbitrary callers ---------------------------------
\* The exported functions called in any order by up to three callers, each of
\* which calls exchangeCodeForTokens at most once per page load; pc is the
\* caller's position in that call, path its outcome, authCode the pair its
\* last getAuthorizationCode returned.
InitUtils == InitOf(Procs)

UtilsOnly == UNCHANGED <<now, tokens, user, userStatus, loading, polls, tok,
                         rpc, rtok, ticks>>

\* a caller enters signInWithLang, which suspends in generateCodeChallenge
U_SignIn ==
  /\ reloads < MaxReloads
  /\ signIns < MaxSignIns
  /\ signIns' = signIns + 1
  /\ UNCHANGED <<url, store, redirect, tokenCalls, pc, path, authCode, reloads>>
  /\ UtilsOnly

\* the digest settles: signInWithLang stores the PkceSession and redirects
U_SignInDigest ==
  /\ signIns > 0
  /\ Commit(signInWithLang(Page))
  /\ signIns' = signIns - 1
  /\ UNCHANGED <<pc, path, authCode, reloads>>
  /\ UtilsOnly

\* the identity provider sends the browser back with a callback: a page load
U_Return ==
  /\ redirect = "authorize"
  /\ url' \in Callbacks \ {Null}
  /\ redirect' = "none"
  /\ reloads' = reloads + 1
  /\ pc' = [i \in Procs |-> "start"]
  /\ path' = [i \in Procs |-> "start"]
  /\ authCode' = [i \in Procs |-> Null]
  /\ signIns' = 0
  /\ UNCHANGED <<store, tokenCalls>>
  /\ UtilsOnly

U_Get(i) ==
  /\ Commit(getAuthorizationCode(Page).page)
  /\ authCode' = [authCode EXCEPT ![i] = getAuthorizationCode(Page).ret]
  /\ UNCHANGED <<pc, path, reloads, signIns>>
  /\ UtilsOnly

U_Clear ==
  /\ Commit(clearAuthorizationCode(Page))
  /\ UNCHANGED <<pc, path, authCode, reloads, signIns>>
  /\ UtilsOnly

U_Mark ==
  /\ Commit(markExchangeInProgress(Page))
  /\ UNCHANGED <<pc, path, authCode, reloads, signIns>>
  /\ UtilsOnly

\* a caller enters exchangeCodeForTokens
U_Exchange(i) ==
  /\ pc[i] = "start"
  /\ Commit(exchangeCodeForTokens_call(Page).page)
  /\ pc' = [pc EXCEPT ![i] = IF exchangeCodeForTokens_call(Page).thrown
                               THEN "done" ELSE "exchange_fetch"]
  /\ path' = [path EXCEPT ![i] = IF exchangeCodeForTokens_call(Page).thrown
                                   THEN "noverifier" ELSE "owner"]
  /\ UNCHANGED <<authCode, reloads, signIns>>
  /\ UtilsOnly

\* its fetch settles: an ok response removes the verifier and the state
U_ExchangeResponseOn(i, r) ==
  /\ pc[i] = "exchange_fetch"
  /\ Commit(IF r.net /\ r.ok THEN exchangeCodeForTokens_ok(Page) ELSE Page)
  /\ pc' = [pc EXCEPT ![i] = "done"]
  /\ path' = [path EXCEPT ![i] = IF r.net /\ r.ok THEN "ownerOk" ELSE "ownerFail"]
  /\ UNCHANGED <<authCode, reloads, signIns>>
  /\ UtilsOnly

U_ExchangeResponse(i) == \E r \in TokenResponses : U_ExchangeResponseOn(i, r)

NextUtils ==
  \/ U_SignIn
  \/ U_SignInDigest
  \/ U_Return
  \/ \E i \in Procs : U_Get(i)
  \/ U_Clear
  \/ U_Mark
  \/ \E i \in Procs : U_Exchange(i)
  \/ \E i \in Procs : U_ExchangeResponse(i)

SpecUtils == InitUtils /\ [][NextUtils]_vars

\* ---- vocabulary of the properties ---------------------------------------
\* the branches of handleAuth (variable path)
PollPaths == {"poll", "pollOk", "pollGone", "pollTimeout"}
OwnerPaths == {"owner", "ownerOk", "ownerFail", "ownerBadJwt"}
\* the invocation resolved a callback whose state matched, with no valid
\* TokenSet in the cache
ExchangePaths == PollPaths \cup OwnerPaths \cup {"noverifier"}
\* the invocation's exchange is in flight: exchangeCodeForTokens has not returned
InFlight(i) == pc[i] \in {"exchange_fetch", "exchange_json"}
\* what getAuthorizationCode is to return: the URL's callback, else the pending one
Resolved == IF url # Null THEN url ELSE ssPending
CacheValid == tokens # Null /\ Val(tokens).expiresAt > now
CacheExpired == tokens # Null /\ Val(tokens).expiresAt <= now

\* ---- C1 -------------------------------------------------------------------
\* C1: whenever an initialization resolves a callback whose state matches the
\* stored state while no valid TokenSet is cached, the token endpoint has been
\* called exactly once in total when that synchronous run ends, and the total
\* stays one however the (two) invocations interleave at their suspension
\* points afterwards.
C1_Total ==
  /\ tokenCalls <= 1
  /\ (\E i \in Procs : path[i] \in ExchangePaths) => tokenCalls = 1

C1_Step ==
  \A i \in Procs :
    (/\ HA_Start(i)
     /\ Resolved # Null /\ ssState = Some(Val(Resolved).state)
     /\ ~CacheValid)
      => tokenCalls' = 1

C1_ExactlyOneTokenCall == [](C1_Total) /\ [][C1_Step]_vars

C1_Witness ==
  /\ \E i \in Procs : path[i] \in OwnerPaths /\ pc[i] = "done"
  /\ \E i \in Procs : path[i] \in PollPaths /\ pc[i] = "done"
  /\ tokenCalls = 1

\* ---- C2 -------------------------------------------------------------------
\* C2 as stated: whenever the owner's exchange succeeded and another
\* invocation polled and has finished, the poller observed the TokenSet the
\* owner wrote (both hold the same TokenSet) and did not take the failure
\* branch that sets status error. (Read in the claim's favour: the owner's
\* TokenSet is decodable, still cached and still unexpired, and an error that
\* the status check itself returns is not counted.)
C2_PollerAlwaysObserves ==
  \A o \in Procs : \A p \in Procs :
    (/\ path[o] = "ownerOk" /\ tokens = tok[o] /\ Val(tok[o]).expiresAt > now
     /\ path[p] \in PollPaths /\ pc[p] = "done")
      => (path[p] = "pollOk" /\ tok[p] = tok[o])

\* C2 amended: a poller that observes a TokenSet observes the one the owner
\* wrote, so both hold the same TokenSet; a poller takes the failure branch
\* (status error) only when the cache holds no unexpired TokenSet and either
\* the ExchangeLock is gone or its 50th wait has just completed.
C2_ObservedIsOwners ==
  \A p \in Procs :
    /\ path[p] = "pollOk" =>
         \E o \in Procs : path[o] \in {"ownerOk", "ownerBadJwt"} /\ tok[p] = tok[o]
    /\ path[p] \in PollPaths => polls[p] < PollBudget

C2_FailureOnlyWhenDue ==
  \A p \in Procs :
    (HA_Poll(p) /\ path'[p] \in {"pollGone", "pollTimeout"})
      => /\ ~CacheValid
         /\ ~ssLock \/ polls[p] + 1 = PollBudget
         /\ userStatus' = "error"

C2_PollerConverges == [](C2_ObservedIsOwners) /\ [][C2_FailureOnlyWhenDue]_vars

\* both invocations finished the status check holding the owner's TokenSet
C2_Witness ==
  \E o \in Procs : \E p \in Procs :
    /\ path[o] = "ownerOk" /\ path[p] = "pollOk"
    /\ pc[o] = "done" /\ pc[p] = "done"
    /\ tok[p] = tok[o] /\ tokens = tok[o]

\* ---- C3 -------------------------------------------------------------------
\* C3: an initialization that resolves a callback whose state differs from
\* the stored anti-CSRF state (or finds no stored state) issues no call to the
\* token endpoint: the step leaves the count of calls unchanged and the
\* invocation is finished after it.
C3_MismatchStep ==
  \A i \in Procs :
    (HA_Start(i) /\ Resolved # Null /\ ssState # Some(Val(Resolved).state))
      => (tokenCalls' = tokenCalls /\ pc'[i] = "done")

C3_MismatchNoTokenCall == [][C3_MismatchStep]_vars

C3_Witness ==
  \E i \in Procs : path[i] = "mismatch" /\ pc[i] = "done" /\ tokenCalls = 0

\* ---- C4 -------------------------------------------------------------------
\* C4 as stated: once an initialization has aborted on a state mismatch, the
\* published account status is error.
C4_MismatchEndsInError ==
  \A i \in Procs : path[i] = "mismatch" => userStatus = "error"

\* ---- C5 -------------------------------------------------------------------
\* C5 as stated: while the owner's exchange is in flight, the ExchangeLock is
\* removed only by a step of that owner.
C5_LockStep ==
  \A o \in Procs :
    (InFlight(o) /\ ssLock /\ ~ssLock') => pc'[o] # pc[o]

C5_OnlyOwnerClearsLock == [][C5_LockStep]_vars

\* C5 amended: the lock is taken only by an invocation that starts its
\* exchange while the lock is free, and nobody takes it or calls the token
\* endpoint while an exchange is in flight; the owner removes it only in the
\* step in which its exchange succeeds or fails; while the exchange is in
\* flight the only other steps that remove it are a poller exhausting its
\* budget and a state-mismatch abort: a poller that succeeds or sees the lock
\* gone and the cached-token shortcut never do.
C5_AmendedStep ==
  /\ (~ssLock /\ ssLock') =>
       \E i \in Procs : pc[i] = "start" /\ pc'[i] = "exchange_fetch"
  /\ \A o \in Procs :
       /\ InFlight(o) => tokenCalls' = tokenCalls
       /\ (pc[o] = "exchange_fetch" /\ pc'[o] = "exchange_json") => ssLock' = ssLock
       /\ (InFlight(o) /\ pc'[o] = pc[o] /\ ssLock /\ ~ssLock') =>
            \E p \in Procs :
              /\ pc'[p] # pc[p]
              /\ path'[p] \in {"pollTimeout", "mismatch"}

C5_LockDiscipline == [][C5_AmendedStep]_vars

\* a poller ran out of budget and removed the lock under a pending exchange
C5_Witness ==
  \E o \in Procs : \E p \in Procs :
    InFlight(o) /\ path[p] = "pollTimeout" /\ ~ssLock /\ ssPending = Null

\* ---- C6 -------------------------------------------------------------------
\* C6 as stated: every step that derives the user from a cached TokenSet or
\* sends its id token to the status endpoint (an initialization leaving its
\* start or its poll loop for the status check, a retry) reads a TokenSet
\* whose expiresAt is strictly later than the current time.
C6_UseStep ==
  (\/ \E j \in Retries : rpc[j] = "idle" /\ rpc'[j] = "status"
   \/ \E i \in Procs : /\ pc[i] \in {"start", "poll"}
                         /\ pc'[i] \in {"status", "stored_status", "crashed"})
    => (tokens # Null /\ Val(tokens).expiresAt > now)

C6_NoExpiredTokenUsed == [][C6_UseStep]_vars

\* ---- C7 -------------------------------------------------------------------
\* C7 as stated: every step of an initialization that reads the cache (the
\* start of handleAuth unless it aborts on the state, a wake-up of the poll
\* loop) and finds an expired TokenSet removes it from storage.
C7_ReadStep ==
  \A i \in Procs :
    (/\ CacheExpired
     /\ \/ HA_Start(i) /\ path'[i] # "mismatch"
        \/ HA_Poll(i))
      => tokens' = Null

C7_ExpiredPurgedOnRead == [][C7_ReadStep]_vars

\* ---- C8 -------------------------------------------------------------------
\* C8 as stated: an initialization that resolves a callback with a valid
\* state while the cache holds a non-expired TokenSet makes no token-endpoint
\* call, clears PendingCallback and ExchangeLock, and goes on to the status
\* check with the cached id token.
C8_ShortcutStep ==
  \A i \in Procs :
    (/\ HA_Start(i)
     /\ Resolved # Null /\ ssState = Some(Val(Resolved).state)
     /\ CacheValid)
      => /\ tokenCalls' = tokenCalls
         /\ ssPending' = Null /\ ~ssLock'
         /\ pc'[i] = "status" /\ tok'[i] = tokens

C8_CachedTokenShortcut == [][C8_ShortcutStep]_vars

\* ---- C9 -------------------------------------------------------------------
\* C9: the status an initialization or a retry publishes for a backend
\* response is approved for HTTP 200, deactivated for HTTP 403 whose JSON body
\* has code ACCOUNT_DESACTIVATED, pending for any other HTTP 403 (unparsable
\* body included), and error for any other status or a network failure.
StatusTable(r) ==
  IF r.net /\ r.status = 200 THEN "approved"
  ELSE IF r.net /\ r.status = 403 /\ r.json = <<[code |-> "ACCOUNT_DESACTIVATED"]>>
    THEN "deactivated"
  ELSE IF r.net /\ r.status = 403 THEN "pending"
  ELSE "error"

C9_StatusStep ==
  \A r \in StatusResponses :
    /\ \A i \in Procs : HA_StatusResponseOn(i, r) => userStatus' = StatusTable(r)
    /\ \A j \in Retries : Retry_StatusResponseOn(j, r) => userStatus' = StatusTable(r)

C9_StatusMapping == [][C9_StatusStep]_vars

C9_Witness ==
  /\ userStatus = "deactivated"
  /\ \E i \in Procs : pc[i] = "done" /\ path[i] \in {"stored", "cached", "pollOk", "ownerOk"}

\* ---- C10 ------------------------------------------------------------------
\* C10: a step of handleRetry never calls the token endpoint and leaves the
\* token cache and the four keys of the ephemeral store unchanged; the click
\* only sets the status to loading (when a TokenSet is cached) and takes the
\* cached TokenSet, the response only sets the status to the result of the
\* status check; user, loading and the location stay as they are.
C10_RetryStep ==
  \A j \in Retries :
    /\ (Retry_Start(j) \/ Retry_StatusResponse(j)) =>
         /\ tokenCalls' = tokenCalls
         /\ tokens' = tokens
         /\ store' = store
         /\ user' = user /\ loading' = loading /\ redirect' = redirect /\ url' = url
    /\ Retry_Start(j) =>
         /\ rtok'[j] = tokens
         /\ userStatus' = (IF tokens = Null THEN userStatus ELSE "loading")
    /\ Retry_StatusResponse(j) =>
         \E r \in StatusResponses : userStatus' = StatusTable(r)

C10_RetryOnlyChecksStatus == [][C10_RetryStep]_vars

\* a retry has run its status check against the cached TokenSet
C10_Witness ==
  \E j \in Retries : rpc[j] = "done" /\ rtok[j] # Null /\ rtok[j] = tokens

\* ---- C11 ------------------------------------------------------------------
\* C11: an initialization that resolved a callback leaves PendingCallback and
\* ExchangeLock both absent in the step that takes it out of its start, its
\* poll loop or its exchange (state mismatch, cached-token shortcut, poll
\* success, poll failure or timeout, exchange success, exchange failure); and
\* once every initialization of the page load has finished, neither a
\* PendingCallback nor an ExchangeLock remains.
Finished(i) == pc[i] \in {"done", "crashed", "unmounted"}

C11_TerminalStep ==
  \A i \in Procs :
    (/\ pc[i] \in {"start", "poll", "exchange_fetch", "exchange_json"}
     /\ pc'[i] \in {"status", "done", "crashed"}
     /\ authCode'[i] # Null)
      => (ssPending' = Null /\ ~ssLock')

C11_AllFinished ==
  (\A i \in Procs : Finished(i)) => (ssPending = Null /\ ~ssLock)

C11_ClearedOnEveryPath == [](C11_AllFinished) /\ [][C11_TerminalStep]_vars

\* both invocations resolved the callback and finished, one by exchange
\* failure and one by poll failure, and the store holds neither key
C11_Witness ==
  /\ \A i \in Procs : Finished(i)
  /\ \E i \in Procs : path[i] = "ownerFail"
  /\ \E i \in Procs : path[i] \in {"pollGone", "pollTimeout"}
  /\ ssPending = Null /\ ~ssLock

\* ---- C12 ------------------------------------------------------------------
\* C12 as stated: no failure during initialization escapes as an uncaught
\* fault, and an invocation that has finished has set loading to false.
C12_EveryFailureCaught ==
  \A i \in Procs :
    /\ pc[i] # "crashed"
    /\ pc[i] = "done" => ~loading

\* ---- C13 ------------------------------------------------------------------
\* C13 as stated: the step that aborts an initialization on a state
\* validation failure leaves no stored verifier and no stored state, besides
\* clearing PendingCallback and ExchangeLock.
C13_MismatchStep ==
  \A i \in Procs :
    (HA_Start(i) /\ Resolved # Null /\ ssState # Some(Val(Resolved).state))
      => /\ ssVerifier' = Null /\ ssState' = Null
         /\ ssPending' = Null /\ ~ssLock'

C13_MismatchDeletesPkceSession == [][C13_MismatchStep]_vars

\* ---- C14 ------------------------------------------------------------------
\* C14 as stated: in every state between two steps (every suspension point),
\* if the ExchangeLock or a PendingCallback is present then the stored
\* verifier and the stored state are both present.
C14_PkceSessionOutlives ==
  (ssLock \/ ssPending # Null) => (ssVerifier # Null /\ ssState # Null)

\* ---- C15 ------------------------------------------------------------------
\* C15: a polling invocation never completes more than 50 waits and is never
\* left waiting after its 50th; when the 50th wait completes while the
\* ExchangeLock is still set and no valid TokenSet is cached (whether or not
\* an owner still exists), that step finishes the invocation, removes
\* PendingCallback and ExchangeLock, sets status error and loading false.
C15_Bounded ==
  \A i \in Procs :
    /\ polls[i] < PollBudget
    /\ pc[i] # "poll" => polls[i] = 0

C15_ExhaustStep ==
  \A i \in Procs :
    (/\ pc[i] = "poll" /\ polls[i] = PollBudget - 1
     /\ HA_Poll(i)
     /\ ssLock /\ ~CacheValid)
      => /\ pc'[i] = "done"
         /\ ssPending' = Null /\ ~ssLock'
         /\ userStatus' = "error" /\ ~loading'

C15_PollerTerminates == [](C15_Bounded) /\ [][C15_ExhaustStep]_vars

\* after a reload that left the lock of a vanished owner behind, a poller has
\* used up its 50 waits: no invocation of this page load ever owned an exchange
C15_Witness ==
  /\ reloads > 0
  /\ \A j \in Procs : path[j] \notin OwnerPaths
  /\ \E i \in Procs : path[i] = "pollTimeout" /\ pc[i] = "done"
  /\ ssPending = Null /\ ~ssLock /\ userStatus = "error" /\ ~loading

\* ---- C16 ------------------------------------------------------------------
\* C16: when the token endpoint answers the owner's exchange with a
\* non-success status, the step that handles the answer finishes the owner
\* with status error and loading false, PendingCallback and ExchangeLock
\* removed, and no TokenSet written.
C16_FailStep ==
  \A i \in Procs : \A r \in TokenResponses :
    (HA_ExchangeResponseOn(i, r) /\ r.net /\ ~r.ok)
      => /\ pc'[i] = "done"
         /\ userStatus' = "error" /\ ~loading'
         /\ ssPending' = Null /\ ~ssLock'
         /\ tokens' = tokens /\ user' = user

C16_TokenErrorEndsInError == [][C16_FailStep]_vars

\* an owner's exchange was refused (the verifier, removed only on success, is
\* still stored) and the page shows the error state
C16_Witness ==
  \E i \in Procs :
    /\ path[i] = "ownerFail" /\ pc[i] = "done" /\ ssVerifier # Null
    /\ tokenCalls > 0
    /\ userStatus = "error" /\ ~loading /\ ssPending = Null /\ ~ssLock

\* ---- C19 ------------------------------------------------------------------
\* C19: a sign-out made in any of the terminal states approved, pending,
\* deactivated and error leaves the token cache empty, the user absent and
\* the status loading, and sends the browser to the logout endpoint; the
\* ephemeral store is not touched.
TerminalStatuses == {"approved", "pending", "deactivated", "error"}

C19_SignOutStep ==
  \A st \in TerminalStatuses :
    (userStatus = st /\ SignOut)
      => /\ tokens' = Null /\ user' = Null
         /\ userStatus' = "loading" /\ redirect' = "logout"
         /\ UNCHANGED store

C19_SignOutResets == [][C19_SignOutStep]_vars

\* the user has signed out of a session that had a cached TokenSet
C19_Witness ==
  /\ redirect = "logout"
  /\ tokens = Null /\ user = Null /\ userStatus = "loading"
  /\ \E i \in Procs : tok[i] # Null

\* ---- C17 ------------------------------------------------------------------
\* C17: the step that delivers an ok token response leaves no stored verifier
\* and no stored state; only signInWithLang stores a verifier again; and a
\* call of exchangeCodeForTokens made while no verifier is stored throws at
\* once without a request to the token endpoint. Hence, on a page load where
\* an exchange succeeded and no sign-in was started, no verifier is stored.
C17_OkStep ==
  \A i \in Procs : \A r \in TokenResponses :
    (U_ExchangeResponseOn(i, r) /\ r.net /\ r.ok)
      => (ssVerifier' = Null /\ ssState' = Null)

C17_LaterStep ==
  \A i \in Procs :
    (U_Exchange(i) /\ ssVerifier = Null)
      => /\ path'[i] = "noverifier" /\ pc'[i] = "done"
         /\ tokenCalls' = tokenCalls

C17_RestoreStep ==
  (ssVerifier = Null /\ ssVerifier' # Null)
    => (signIns > 0 /\ signIns' = signIns - 1 /\ redirect' = "authorize")

C17_Spent ==
  (redirect = "none" /\ \E i \in Procs : path[i] = "ownerOk")
    => (ssVerifier = Null /\ ssState = Null)

C17_VerifierSingleUse ==
  [](C17_Spent) /\ [][C17_OkStep /\ C17_LaterStep /\ C17_RestoreStep]_vars

\* without any sign-in on this page load, one exchange succeeded (the only
\* request made) and a later call was refused for want of a verifier
C17_Witness ==
  /\ reloads = 0 /\ redirect = "none"
  /\ tokenCalls = 1
  /\ \E i \in Procs : path[i] = "ownerOk"
  /\ \E j \in Procs : path[j] = "noverifier"
  /\ ssVerifier = Null /\ ssState = Null

\* ---- C18 ------------------------------------------------------------------
\* C18: a call of getAuthorizationCode that finds code and state in the URL
\* returns them, strips them from the URL and stores them as pending; a call
\* that finds the URL clean returns the pending pair and changes nothing;
\* clearAuthorizationCode removes the pending pair. Hence all calls of a page
\* load that returned a pair returned the same one, equal to the pending pair
\* as long as it is not cleared, and calls after the clear return absent.
C18_GetStep ==
  \A i \in Procs :
    U_Get(i) =>
      /\ url' = Null
      /\ url # Null => (authCode'[i] = url /\ ssPending' = url)
      /\ url = Null => (authCode'[i] = ssPending /\ ssPending' = ssPending)

C18_ClearStep == U_Clear => (ssPending' = Null /\ url' = url)

C18_SamePair ==
  \A i \in Procs : \A j \in Procs :
    authCode[i] # Null =>
      /\ url = Null
      /\ ssPending # Null => authCode[i] = ssPending
      /\ authCode[j] # Null => authCode[j] = authCode[i]

C18_ResolutionIdempotent ==
  [](C18_SamePair) /\ [][C18_GetStep /\ C18_ClearStep]_vars

\* two callers resolved the callback of the URL, one after the other, and
\* hold the same pair, which is still pending; a third has not called yet
C18_Witness ==
  /\ url = Null /\ ssPending # Null
  /\ authCode[1] = ssPending /\ authCode[2] = ssPending
  /\ authCode[NumInit + 1] = Null

\* ---- C20 ------------------------------------------------------------------
\* C20 as stated, for any number of interleaved initializations: when the
\* owner's exchange has succeeded and its unexpired TokenSet is the cached
\* one, and no poll budget ran out (and nobody signed out), no poller has
\* ended through 'lock gone and no valid TokenSet'.
C20_NoSpuriousPollFailure ==
  \A p \in Procs : \A o \in Procs :
    (/\ path[o] = "ownerOk" /\ tok[o] # Null /\ tokens = tok[o]
     /\ Val(tok[o]).expiresAt > now
     /\ \A j \in Procs : path[j] # "pollTimeout"
     /\ redirect = "none")
      => path[p] # "pollGone"

\* ---- C21 ------------------------------------------------------------------
\* C21 as stated: once every initialization of the page load has run to its
\* end, with no sign-out, no time elapsed and every TokenSet read or written
\* still unexpired, the user is set if and only if the token cache holds an
\* unexpired TokenSet.
C21_UserIffCacheValid ==
  (/\ \A i \in Procs : pc[i] \in {"done", "unmounted"}
   /\ redirect = "none"
   /\ ticks = 0
   /\ \A i \in Procs : tok[i] # Null => Val(tok[i]).expiresAt > now)
    => (user # Null <=> CacheValid)

\* ---- C22 ------------------------------------------------------------------
\* C22: with three initializations started at any times on a page load, the
\* authorization code delivered in the URL leads to at most one call of the
\* token endpoint: the count of calls never exceeds one, and the only step
\* that raises it is taken by an invocation that resolved the callback while
\* no call had been made; in particular no call follows a poller's timeout
\* that removed the ExchangeLock under the owner's exchange.
C22_Once == tokenCalls <= 1

C22_CallStep ==
  (tokenCalls' # tokenCalls)
    => /\ tokenCalls = 0 /\ tokenCalls' = 1
       /\ Resolved # Null
       /\ \A p \in Procs : path[p] # "pollTimeout"

C22_AtMostOneTokenCall == [](C22_Once) /\ [][C22_CallStep]_vars

\* a poller ran out of budget and removed the lock while the owner's exchange
\* is still in flight; an invocation started after that found no callback,
\* and the owner's call is the only one made
C22_Witness ==
  \E o \in Procs : \E p \in Procs : \E q \in Procs :
    /\ InFlight(o) /\ path[p] = "pollTimeout"
    /\ path[q] \in {"none", "purged", "stored"} /\ authCode[q] = Null
    /\ ~ssLock /\ ssPending = Null
    /\ tokenCalls = 1

\* ---- C23 ------------------------------------------------------------------
\* C23 as stated: the step in which an owner's exchange ends in the catch
\* handler (the invocation finishes with status error, without going on to
\* the status check) leaves the token cache as it was.
C23_FailStep ==
  \A i \in Procs :
    (InFlight(i) /\ pc'[i] = "done" /\ userStatus' = "error")
      => tokens' = tokens

C23_FailureWritesNoTokenSet == [][C23_FailStep]_vars

\* ---- C24 ------------------------------------------------------------------
\* C24: in every state, across reloads, a set ExchangeLock comes with a stored
\* PendingCallback; the lock is set only in the start step of an invocation
\* that resolved that callback; and lock and pending callback are removed
\* only together: no step removes one and leaves the other.
C24_LockImpliesPending == ssLock => ssPending # Null

C24_SetStep ==
  (~ssLock /\ ssLock')
    => /\ ssPending' # Null
       /\ \E i \in Procs : pc[i] = "start" /\ authCode'[i] = ssPending'

C24_RemoveStep ==
  /\ (ssLock /\ ~ssLock') => ssPending' = Null
  /\ (ssPending # Null /\ ssPending' = Null) => ~ssLock'

C24_LockNeedsCallback ==
  [](C24_LockImpliesPending) /\ [][C24_SetStep /\ C24_RemoveStep]_vars

\* after a reload the lock and the pending callback of the previous page load
\* are both still stored, and an invocation of the new load polls on them
C24_Witness ==
  /\ reloads > 0
  /\ ssLock /\ ssPending # Null
  /\ \E i \in Procs : pc[i] = "poll" /\ authCode[i] = ssPending
  /\ \A o \in Procs : ~InFlight(o)

=============================================================================
